---- MODULE Spec2Model ----
(***************************************************************************)
(* A model of memilio's ProgressIndicator                                  *)
(* (pycode/memilio-epidata/memilio/ProgressIndicator.py): the base         *)
(* indicator with its background render thread, the Percentage wrapper,    *)
(* the generator that produces the frames and the terminal the frames are  *)
(* written to.  One caller thread (id 0) owns the indicator; the render    *)
(* threads it spawns have the ids 1..MaxThreads.                           *)
(***************************************************************************)
EXTENDS Integers, Sequences, FiniteSets, TLC

\* ------------------------------------------------------------------ bounds
\* number of API calls the caller makes
MaxCalls == 4
\* number of render threads the caller may spawn over the indicator's life
MaxThreads == 2
\* the background loop takes a further turn only while fewer writes were made
MaxOut == 2

\* ------------------------------------------------------------------ inputs
\* progress values in units of 1/10000 (0.5 is 5000), so that 100*p has
\* exactly the two decimals "{:6.2f}" prints
ProgressValues == {0, 5000}
Messages == {<<"m">>}
ExitPaths == {"normal", "exception", "return"}

Caller == 0
Threads == 1..MaxThreads

VARIABLES
    kind,         \* "Base" (ProgressIndicator.Spinner) or "Percentage"
    use_thread,   \* Percentage._use_thread
    keep_output,  \* Percentage._keep_output
    message,      \* the message prefix of every frame
    progress,     \* Percentage._progress[0]
    enabled,      \* ProgressIndicator._enabled
    thread,       \* ProgressIndicator._thread: 0 is None, else the thread's id
    tpc,          \* position of every render thread in _render
    tframe,       \* the frame a render thread has pulled and not yet written
    gen_running,  \* the threads executing the generator's body (gi_running)
    gen_pos,      \* Spinner: index of the next symbol of "|/-\\"
    out,          \* sys.stdout: the writes made, in order, each with its writer
    cpc,          \* position of the caller inside the call it is making
    cframe,       \* the frame the caller has pulled and not yet written
    last,         \* the call the caller is making or has made last
    ncalls,       \* number of calls made
    scope,        \* the caller's position relative to a `with` block
    args,         \* the arguments the indicator is constructed with
    status,       \* "new" before construction, then "ok" or the error raised
    fs,           \* clean_data: the file system below out_path
    cl            \* clean_data: its arguments and its position

ind == <<enabled, thread, tpc, tframe, gen_running, gen_pos, out, progress>>
cfg == <<kind, use_thread, keep_output, message>>
\* what no call on a constructed indicator touches
env == <<args, status, fs, cl>>
vars == <<kind, use_thread, keep_output, message, progress, enabled, thread,
          tpc, tframe, gen_running, gen_pos, out, cpc, cframe, last, ncalls,
          scope, args, status, fs, cl>>

\* ---------------------------------------------------------------- strings
DigitChars == <<"0", "1", "2", "3", "4", "5", "6", "7", "8", "9">>

RECURSIVE Digits(_)
Digits(n) == IF n < 10 THEN <<DigitChars[n + 1]>>
             ELSE Digits(n \div 10) \o <<DigitChars[(n % 10) + 1]>>

RECURSIVE PadLeft(_, _)
PadLeft(s, w) == IF Len(s) >= w THEN s ELSE PadLeft(<<" ">> \o s, w)

\* the format applied to p instead of 100*p
Fmt62_Fraction(bp) == PadLeft(Digits(bp \div 10000) \o <<".">>
                              \o <<DigitChars[((bp % 10000) \div 1000) + 1],
                                   DigitChars[((bp % 1000) \div 100) + 1]>>, 6)

\* "{:6.2f}".format(100*p) for p = bp/10000
Fmt62(bp) == PadLeft(Digits(bp \div 100) \o <<".">>
                     \o <<DigitChars[((bp % 100) \div 10) + 1],
                          DigitChars[(bp % 10) + 1]>>, 6)

\* Percentage._perc: "{}{:6.2f}%".format(message[0], 100*p[0])
PercFrame(m, bp) == m \o Fmt62(bp) \o <<"%">>

SpinSymbols == <<"|", "/", "-", "\\">>

\* Spinner.spin: "{}{}".format(message, s) for s in "|/-\\", looping
SpinFrame(m, i) == m \o <<SpinSymbols[i + 1]>>

\* Python's str * n: no copy for n <= 0
RECURSIVE Rep(_, _)
Rep(s, n) == IF n <= 0 THEN <<>> ELSE s \o Rep(s, n - 1)

\* Dots.dots with n in range(0, num_dots)
DotsFrame_FromZero(m, dot, blank, num, n) ==
    m \o Rep(dot, n - 1) \o Rep(blank, num - n + 1)

\* Dots.dots: "{}{}{}".format(message, dot*n, blank*(num_dots-n)) for n in
\* range(1, num_dots+1), looping
DotsFrame(m, dot, blank, num, n) == m \o Rep(dot, n) \o Rep(blank, num - n)

\* int(x / d): Python's int() truncates towards zero
Trunc(x, d) == IF x >= 0 THEN x \div d ELSE -((-x) \div d)

\* Percentage._bar.__init__: self.w = width - len(message) - 11
BarWidth(width, m) == width - Len(m) - 11

\* _bar.__getitem__ with round() in place of int()
Bar_Rounded(m, w, bp) == LET n == (w * bp + 5000) \div 10000 IN
                         m \o <<"[">> \o Rep(<<"#">>, n) \o Rep(<<" ">>, w - n)
                           \o <<"]", " ">>

\* Percentage._bar.__getitem__: n = int(self.w * self.p[0]);
\* self.m + "[" + "#" * n + " " * (self.w - n) + "] "
Bar(m, w, bp) == LET n == Trunc(w * bp, 10000) IN
                 m \o <<"[">> \o Rep(<<"#">>, n) \o Rep(<<" ">>, w - n)
                   \o <<"]", " ">>

\* the generator given the value of `percentage` instead of the list
P0_ByValue == args.percentage

\* p[0] in _perc and _bar: the list self._progress is shared with
\* set_progress, so the generator reads the current value
P0 == progress

\* message[0] in Percentage._perc: the bar in bar mode, else the message
Prefix == IF args.use_bar THEN Bar(message, BarWidth(args.width, message), P0)
          ELSE message

\* the frame the generator yields when its body runs now
NextFrame == IF kind = "Percentage" THEN PercFrame(Prefix, P0)
             ELSE IF args.preset = "Dots"
                  THEN DotsFrame(message, args.dot, args.blank, args.num_dots,
                                 gen_pos + 1)
                  ELSE SpinFrame(message, gen_pos)

\* show(): sys.stdout.write(" {}\r".format(frame))
FrameText(f) == <<" ">> \o f \o <<"\r">>
\* "\033[K", erase from the cursor to the end of the line
ClearText == <<"ESC[K">>
NewlineText == <<"\n">>

Wr(who, text) == [by |-> who, text |-> text]

\* --------------------------------------------------------------- terminal
\* The terminal the writes go to: the completed lines, the current line and
\* the cursor's column.  "\r" returns the cursor, "\n" starts a new line,
\* ESC[K erases from the cursor on, any other character overwrites.
Term0 == [lines |-> <<>>, cur |-> <<>>, col |-> 0]

Put(t, ch) ==
    IF ch = "\r" THEN [t EXCEPT !.col = 0]
    ELSE IF ch = "\n" THEN [lines |-> Append(t.lines, t.cur), cur |-> <<>>, col |-> 0]
    ELSE IF ch = "ESC[K" THEN [t EXCEPT !.cur = SubSeq(t.cur, 1, t.col)]
    ELSE [t EXCEPT !.cur = IF t.col < Len(t.cur)
                            THEN [t.cur EXCEPT ![t.col + 1] = ch]
                            ELSE Append(t.cur, ch),
                   !.col = t.col + 1]

RECURSIVE Feed(_, _)
Feed(t, s) == IF s = <<>> THEN t ELSE Feed(Put(t, Head(s)), Tail(s))

RECURSIVE Screen(_)
Screen(o) == IF o = <<>> THEN Term0
             ELSE Feed(Screen(SubSeq(o, 1, Len(o) - 1)), o[Len(o)].text)

\* ----------------------------------------------------------------- helpers
Alive == {t \in Threads : tpc[t] \notin {"unborn", "dead"}}
Spawned == {t \in Threads : tpc[t] # "unborn"}

NoScope == [at |-> "none", path |-> "none"]
Called(nm, a) == [name |-> nm, arg |-> a, st |-> "running", en0 |-> enabled,
                  n0 |-> Len(out), prev |-> last.name]
Returned(rec) == [rec EXCEPT !.st = "returned"]
Raised(rec) == [rec EXCEPT !.st = "raised"]
\* a call that ends inside __exit__ leaves the `with` block
Leave(sc) == IF sc.at = "exit" THEN [sc EXCEPT !.at = "left"] ELSE sc
\* a call made by hand, inside the body of a `with` block or outside any
Manual == IF scope.at = "body" THEN scope ELSE NoScope
CanCall == status = "ok" /\ cpc = "idle" /\ ncalls < MaxCalls /\ scope.at # "exit"

\* ------------------------------------------------------------ construction
\* the arguments of Spinner(), Dots() and Percentage(); a preset's record holds
\* the defaults for the arguments the preset does not take.  `tty` is whether
\* a terminal is attached, `width` its columns; delay is in tenths of a second
Arg(preset, delay, tty, width, msg) ==
    [preset |-> preset, delay |-> delay, tty |-> tty, width |-> width,
     msg |-> msg, num_dots |-> 3, dot |-> <<".">>, blank |-> <<" ">>,
     percentage |-> 0, use_bar |-> FALSE, use_delayed_output |-> TRUE,
     keep_output |-> TRUE]

\* the assertions of Dots(): len(dot) == len(blank), num_dots > 0
DotsPreconditions(a) == Len(a.dot) = Len(a.blank) /\ a.num_dots > 0

\* the assertion of ProgressIndicator.__init__: delay > 0
DelayPrecondition(a) == a.delay > 0

\* Spinner's limit applied by every preset
GuardLimit_Spinner(a) == Len(a.msg) + 2

\* the width below which the message is printed once and dropped
GuardLimit(a) ==
    IF a.preset = "Spinner" THEN Len(a.msg) + 2
    ELSE IF a.preset = "Dots" THEN a.num_dots + Len(a.msg) + 1
    ELSE IF a.use_bar THEN Len(a.msg) + 12
    ELSE Len(a.msg) + 8

\* get_terminal_size() raises OSError when no terminal is attached
WidthKnown(a) == a.tty

\* the constructor reaches its width guard: Dots() asserts before it
ReachesGuard(a) == (a.preset = "Dots" => DotsPreconditions(a)) /\ WidthKnown(a)

Guarded(a) == ReachesGuard(a) /\ a.width < GuardLimit(a)

\* how the constructor ends: Dots() asserts first, every preset then asks the
\* terminal's width, and ProgressIndicator.__init__ asserts last
CtorStatus(a) ==
    IF a.preset = "Dots" /\ ~DotsPreconditions(a) THEN "AssertionError"
    ELSE IF ~WidthKnown(a) THEN "OSError"
    ELSE IF ~DelayPrecondition(a) THEN "AssertionError"
    ELSE "ok"

\* print(message) of the width guard
CtorPrints(a) == IF Guarded(a) THEN <<Wr(Caller, a.msg \o NewlineText)>> ELSE <<>>

\* the message the frames are prefixed with
CtorMessage(a) == IF Guarded(a) THEN <<>> ELSE a.msg

NoCall == [name |-> "none", arg |-> 0, st |-> "returned", en0 |-> FALSE,
           n0 |-> 0, prev |-> "none"]

\* the indicator the constructor builds from `a`, when it succeeds
Constructs(a) ==
    /\ kind' = IF a.preset = "Percentage" THEN "Percentage" ELSE "Base"
    /\ use_thread' = IF a.preset = "Percentage" THEN a.use_delayed_output ELSE TRUE
    /\ keep_output' = IF a.preset = "Percentage" THEN a.keep_output ELSE FALSE
    /\ message' = CtorMessage(a)
    /\ progress' = IF a.preset = "Percentage" THEN a.percentage ELSE 0

\* no indicator, no thread, no call made
Blank ==
    /\ kind = "none"
    /\ use_thread = FALSE
    /\ keep_output = FALSE
    /\ message = <<>>
    /\ progress = 0
    /\ enabled = FALSE
    /\ thread = 0
    /\ tpc = [t \in Threads |-> "unborn"]
    /\ tframe = [t \in Threads |-> <<>>]
    /\ gen_running = {}
    /\ gen_pos = 0
    /\ out = <<>>
    /\ cpc = "idle"
    /\ cframe = <<>>
    /\ last = NoCall
    /\ ncalls = 0
    /\ scope = NoScope

NoFs == [root |-> FALSE]
NoClean == [pc |-> "none"]

\* Spinner(...), Dots(...), Percentage(...): the constructor runs
New ==
    /\ status = "new"
    /\ status' = CtorStatus(args)
    /\ out' = out \o CtorPrints(args)
    /\ IF CtorStatus(args) = "ok" THEN Constructs(args)
       ELSE UNCHANGED <<kind, use_thread, keep_output, message, progress>>
    /\ UNCHANGED <<args, fs, cl, enabled, thread, tpc, tframe, gen_running,
                   gen_pos, cpc, cframe, last, ncalls, scope>>

\* the indicators whose use by caller and render thread is explored: a
\* Spinner and the Percentage indicators, on a terminal wide enough
UsedArgs ==
    {Arg("Spinner", 1, TRUE, 15, m) : m \in Messages}
    \cup {[Arg("Percentage", 1, TRUE, 15, m) EXCEPT
              !.percentage = p, !.use_bar = b, !.use_delayed_output = u,
              !.keep_output = k] :
            m \in Messages, p \in {0}, b \in BOOLEAN,
            u \in BOOLEAN, k \in BOOLEAN}

\* the state after a successful construction
Init ==
    /\ args \in UsedArgs
    /\ status = "ok"
    /\ fs = NoFs
    /\ cl = NoClean
    /\ kind = IF args.preset = "Percentage" THEN "Percentage" ELSE "Base"
    /\ use_thread = IF args.preset = "Percentage" THEN args.use_delayed_output ELSE TRUE
    /\ keep_output = IF args.preset = "Percentage" THEN args.keep_output ELSE FALSE
    /\ message = CtorMessage(args)
    /\ progress = IF args.preset = "Percentage" THEN args.percentage ELSE 0
    /\ enabled = FALSE
    /\ thread = 0
    /\ tpc = [t \in Threads |-> "unborn"]
    /\ tframe = [t \in Threads |-> <<>>]
    /\ gen_running = {}
    /\ gen_pos = 0
    /\ out = CtorPrints(args)
    /\ cpc = "idle"
    /\ cframe = <<>>
    /\ last = NoCall
    /\ ncalls = 0
    /\ scope = NoScope


\* --------------------------------------------------- ProgressIndicator (base)
\* start() without its test of the flag
IndicatorStart_Always ==
    LET t == Cardinality(Spawned) + 1 IN
    /\ t \in Threads
    /\ enabled' = TRUE
    /\ thread' = t
    /\ tpc' = [tpc EXCEPT ![t] = "test"]

\* start(): spawns the render thread unless the indicator is enabled
IndicatorStart ==
    IF ~enabled
    THEN LET t == Cardinality(Spawned) + 1 IN
         /\ t \in Threads
         /\ enabled' = TRUE
         /\ thread' = t
         /\ tpc' = [tpc EXCEPT ![t] = "test"]
    ELSE UNCHANGED <<enabled, thread, tpc>>

\* stop(), up to the join: clears the flag of an enabled indicator and goes on
\* to join the thread; returns at once when the indicator is not enabled
IndicatorStop(rec, sc) ==
    IF enabled
    THEN /\ enabled' = FALSE
         /\ cpc' = "join"
         /\ last' = rec
         /\ scope' = sc
    ELSE /\ UNCHANGED enabled
         /\ cpc' = "idle"
         /\ last' = Returned(rec)
         /\ scope' = Leave(sc)

\* stop() without the join
JoinReady_NoJoin == TRUE

\* stop(): `if self._thread and self._thread.is_alive(): self._thread.join()`
\* lets the caller go on once there is no thread or the thread has ended
JoinReady == thread = 0 \/ thread \notin Alive

\* a render loop that never reads the flag
RenderLoopTest_Always == TRUE

\* the test of _render's loop, `while self._enabled`
RenderLoopTest == enabled

\* next(self._animator) on a generator whose body another thread is executing
\* raises ValueError("generator already executing")
GenBusy == gen_running # {}

\* in bar mode the generator's body reads the progress value twice: in
\* message[0], which is _bar.__getitem__, and in 100*p[0]
TwoReads == kind = "Percentage" /\ args.use_bar

\* the generator's body runs to its yield: Spinner moves on to the next symbol,
\* Percentage's generator holds no position
GenAdvance == IF kind = "Percentage" THEN gen_pos
              ELSE IF args.preset = "Dots" THEN (gen_pos + 1) % args.num_dots
              ELSE (gen_pos + 1) % Len(SpinSymbols)

\* ------------------------------------------------------------- Percentage
\* Percentage.start() without its test of _use_thread
PercentageStart_Always == IndicatorStart

\* Percentage.start(): starts the inner indicator in threaded mode only
PercentageStart ==
    IF use_thread THEN IndicatorStart ELSE UNCHANGED <<enabled, thread, tpc>>

\* Percentage.stop() that renders a frame in either mode
PercentageStop_AlwaysShow(rec, sc) ==
    /\ cpc' = "next"
    /\ last' = rec
    /\ scope' = sc
    /\ UNCHANGED enabled

\* Percentage.stop(), its first statement: show() in threaded mode
PercentageStop(rec, sc) ==
    /\ cpc' = IF use_thread THEN "next" ELSE "nl"
    /\ last' = rec
    /\ scope' = sc
    /\ UNCHANGED enabled

\* set_progress() that renders whatever the flag says
SetProgressShows_Always == TRUE

\* Percentage.set_progress(): renders in the caller when the inner indicator is
\* not enabled
SetProgressShows == ~enabled

\* --------------------------------------------------------- caller's calls
StartCall(sc) ==
    /\ CanCall
    /\ IF kind = "Base" THEN IndicatorStart ELSE PercentageStart
    /\ last' = Returned(Called("start", 0))
    /\ ncalls' = ncalls + 1
    /\ scope' = sc
    /\ UNCHANGED <<env, kind, use_thread, keep_output, message, progress, tframe,
                   gen_running, gen_pos, out, cpc, cframe>>

StopCall(sc) ==
    /\ CanCall
    /\ IF kind = "Base" THEN IndicatorStop(Called("stop", 0), sc)
       ELSE PercentageStop(Called("stop", 0), sc)
    /\ ncalls' = ncalls + 1
    /\ UNCHANGED <<env, kind, use_thread, keep_output, message, progress, thread, tpc,
                   tframe, gen_running, gen_pos, out, cframe>>

\* start() called by hand
Start == scope.at # "exit" /\ StartCall(Manual)

\* stop() called by hand
Stop == scope.at # "exit" /\ StopCall(Manual)

\* __enter__: `with indicator:` calls start() and enters the body
WithEnter ==
    /\ scope.at \in {"none", "left"}
    /\ StartCall([at |-> "body", path |-> "none"])

\* __exit__: the body is left, normally, by an exception or by a return, and
\* stop() is called
WithExit ==
    /\ scope.at = "body"
    /\ \E p \in ExitPaths : StopCall([at |-> "exit", path |-> p])

\* show() called by hand on the base indicator
Show ==
    /\ CanCall
    /\ kind = "Base"
    /\ cpc' = "next"
    /\ last' = Called("show", 0)
    /\ ncalls' = ncalls + 1
    /\ scope' = Manual
    /\ UNCHANGED <<env, kind, use_thread, keep_output, message, progress, enabled,
                   thread, tpc, tframe, gen_running, gen_pos, out, cframe>>

\* Percentage.set_progress(v)
SetProgress ==
    /\ CanCall
    /\ kind = "Percentage"
    /\ \E v \in ProgressValues :
        /\ progress' = v
        /\ IF SetProgressShows
           THEN cpc' = "next" /\ last' = Called("set_progress", v)
           ELSE cpc' = "idle" /\ last' = Returned(Called("set_progress", v))
    /\ ncalls' = ncalls + 1
    /\ scope' = Manual
    /\ UNCHANGED <<env, kind, use_thread, keep_output, message, enabled, thread, tpc,
                   tframe, gen_running, gen_pos, out, cframe>>

\* show() in the caller: next(self._animator) enters the generator, or raises
CallerNext ==
    /\ cpc = "next"
    /\ IF GenBusy
       THEN /\ cpc' = "idle"
            /\ last' = Raised(last)
            /\ scope' = Leave(scope)
            /\ UNCHANGED gen_running
       ELSE /\ gen_running' = gen_running \cup {Caller}
            /\ cpc' = "body"
            /\ UNCHANGED <<last, scope>>
    /\ UNCHANGED <<env, kind, use_thread, keep_output, message, progress, enabled,
                   thread, tpc, tframe, gen_pos, out, cframe, ncalls>>

\* show() in the caller: the generator's body runs.  In bar mode it first
\* reads message[0], the bar, and reads p[0] for the percentage in a later
\* step; otherwise it formats the frame and yields it
CallerBody ==
    /\ cpc = "body"
    /\ IF TwoReads
       THEN /\ cframe' = Prefix
            /\ cpc' = "body2"
            /\ UNCHANGED <<gen_pos, gen_running>>
       ELSE /\ cframe' = NextFrame
            /\ gen_pos' = GenAdvance
            /\ gen_running' = gen_running \ {Caller}
            /\ cpc' = "write"
    /\ UNCHANGED <<env, kind, use_thread, keep_output, message, progress, enabled,
                   thread, tpc, tframe, out, last, ncalls, scope>>

\* show() in the caller, bar mode: the generator formats 100*p[0] after the
\* bar and yields the frame
CallerBody2 ==
    /\ cpc = "body2"
    /\ cframe' = PercFrame(cframe, P0)
    /\ gen_running' = gen_running \ {Caller}
    /\ cpc' = "write"
    /\ UNCHANGED <<env, kind, use_thread, keep_output, message, progress, enabled,
                   thread, tpc, tframe, gen_pos, out, last, ncalls, scope>>

\* show() in the caller: the frame is written; show() returns into
\* Percentage.stop(), or the call (show, set_progress) returns
CallerWrite ==
    /\ cpc = "write"
    /\ out' = Append(out, Wr(Caller, FrameText(cframe)))
    /\ cframe' = <<>>
    /\ IF last.name = "stop"
       THEN cpc' = "nl" /\ UNCHANGED <<last, scope>>
       ELSE cpc' = "idle" /\ last' = Returned(last) /\ scope' = Leave(scope)
    /\ UNCHANGED <<env, kind, use_thread, keep_output, message, progress, enabled,
                   thread, tpc, tframe, gen_running, gen_pos, ncalls>>

\* Percentage.stop(): `if self._keep_output: sys.stdout.write("\n")`
PStopNewline ==
    /\ cpc = "nl"
    /\ out' = IF keep_output THEN Append(out, Wr(Caller, NewlineText)) ELSE out
    /\ cpc' = IF use_thread THEN "istop" ELSE "clear"
    /\ UNCHANGED <<env, kind, use_thread, keep_output, message, progress, enabled,
                   thread, tpc, tframe, gen_running, gen_pos, cframe, last,
                   ncalls, scope>>

\* Percentage.stop(), threaded mode: self._indicator.stop()
PStopInner ==
    /\ cpc = "istop"
    /\ IndicatorStop(last, scope)
    /\ UNCHANGED <<env, kind, use_thread, keep_output, message, progress, thread, tpc,
                   tframe, gen_running, gen_pos, out, cframe, ncalls>>

\* Percentage.stop(), non-threaded mode: sys.stdout.write("\033[K")
PStopClear ==
    /\ cpc = "clear"
    /\ out' = Append(out, Wr(Caller, ClearText))
    /\ cpc' = "idle"
    /\ last' = Returned(last)
    /\ scope' = Leave(scope)
    /\ UNCHANGED <<env, kind, use_thread, keep_output, message, progress, enabled,
                   thread, tpc, tframe, gen_running, gen_pos, cframe, ncalls>>

\* stop(): the join returns, the line is cleared, stop() returns
StopJoin ==
    /\ cpc = "join"
    /\ JoinReady
    /\ out' = Append(out, Wr(Caller, ClearText))
    /\ cpc' = "idle"
    /\ last' = Returned(last)
    /\ scope' = Leave(scope)
    /\ UNCHANGED <<env, kind, use_thread, keep_output, message, progress, enabled,
                   thread, tpc, tframe, gen_running, gen_pos, cframe, ncalls>>

\* ------------------------------------------------------ the render thread
\* _render: `while self._enabled`
BgTest(t) ==
    /\ tpc[t] = "test"
    /\ IF RenderLoopTest
       THEN Len(out) < MaxOut /\ tpc' = [tpc EXCEPT ![t] = "next"]
       ELSE tpc' = [tpc EXCEPT ![t] = "dead"]
    /\ UNCHANGED <<env, kind, use_thread, keep_output, message, progress, enabled,
                   thread, tframe, gen_running, gen_pos, out, cpc, cframe, last,
                   ncalls, scope>>

\* show() in the render thread: next(self._animator) enters the generator; the
\* ValueError of a generator that is executing ends the thread
BgNext(t) ==
    /\ tpc[t] = "next"
    /\ IF GenBusy
       THEN tpc' = [tpc EXCEPT ![t] = "dead"] /\ UNCHANGED gen_running
       ELSE tpc' = [tpc EXCEPT ![t] = "body"] /\ gen_running' = gen_running \cup {t}
    /\ UNCHANGED <<env, kind, use_thread, keep_output, message, progress, enabled,
                   thread, tframe, gen_pos, out, cpc, cframe, last, ncalls, scope>>

BgBody(t) ==
    /\ tpc[t] = "body"
    /\ IF TwoReads
       THEN /\ tframe' = [tframe EXCEPT ![t] = Prefix]
            /\ tpc' = [tpc EXCEPT ![t] = "body2"]
            /\ UNCHANGED <<gen_pos, gen_running>>
       ELSE /\ tframe' = [tframe EXCEPT ![t] = NextFrame]
            /\ gen_pos' = GenAdvance
            /\ gen_running' = gen_running \ {t}
            /\ tpc' = [tpc EXCEPT ![t] = "write"]
    /\ UNCHANGED <<env, kind, use_thread, keep_output, message, progress, enabled,
                   thread, out, cpc, cframe, last, ncalls, scope>>

BgBody2(t) ==
    /\ tpc[t] = "body2"
    /\ tframe' = [tframe EXCEPT ![t] = PercFrame(tframe[t], P0)]
    /\ gen_running' = gen_running \ {t}
    /\ tpc' = [tpc EXCEPT ![t] = "write"]
    /\ UNCHANGED <<env, kind, use_thread, keep_output, message, progress, enabled,
                   thread, gen_pos, out, cpc, cframe, last, ncalls, scope>>

BgWrite(t) ==
    /\ tpc[t] = "write"
    /\ out' = Append(out, Wr(t, FrameText(tframe[t])))
    /\ tframe' = [tframe EXCEPT ![t] = <<>>]
    /\ tpc' = [tpc EXCEPT ![t] = "sleep"]
    /\ UNCHANGED <<env, kind, use_thread, keep_output, message, progress, enabled,
                   thread, gen_running, gen_pos, cpc, cframe, last, ncalls, scope>>

\* time.sleep(self._delay) ends
BgSleep(t) ==
    /\ tpc[t] = "sleep"
    /\ tpc' = [tpc EXCEPT ![t] = "test"]
    /\ UNCHANGED <<env, kind, use_thread, keep_output, message, progress, enabled,
                   thread, tframe, gen_running, gen_pos, out, cpc, cframe, last,
                   ncalls, scope>>

Render(t) == \/ BgTest(t) \/ BgNext(t) \/ BgBody(t) \/ BgBody2(t)
             \/ BgWrite(t) \/ BgSleep(t)

Next ==
    \/ Start
    \/ Stop
    \/ WithEnter
    \/ WithExit
    \/ Show
    \/ SetProgress
    \/ CallerNext
    \/ CallerBody
    \/ CallerBody2
    \/ CallerWrite
    \/ PStopNewline
    \/ PStopInner
    \/ PStopClear
    \/ StopJoin
    \/ \E t \in Threads : BgTest(t)
    \/ \E t \in Threads : BgNext(t)
    \/ \E t \in Threads : BgBody(t)
    \/ \E t \in Threads : BgBody2(t)
    \/ \E t \in Threads : BgWrite(t)
    \/ \E t \in Threads : BgSleep(t)

Spec == Init /\ [][Next]_vars

\* ---------------------------------------------- construction and first use
\* the arguments construction is explored with: delays around 0, widths
\* around every guard's limit and the 80 columns of a usual terminal, with and
\* without a terminal
CtorDelays == {-1, 0, 1}
CtorWidths == {2, 5, 8, 12, 13, 80}
CtorMessages == {<<>>, <<"m">>}
CtorArgs ==
    {Arg("Spinner", d, t, w, m) :
        d \in CtorDelays, t \in BOOLEAN, w \in CtorWidths, m \in CtorMessages}
    \cup {[Arg("Dots", d, t, w, m) EXCEPT !.num_dots = n, !.dot = db[1], !.blank = db[2]] :
            d \in {0, 1}, t \in BOOLEAN, w \in {2, 5}, m \in CtorMessages,
            n \in 0..3,
            db \in {<<<<".">>, <<" ">>>>, <<<<"o", "-">>, <<" ", " ">>>>,
                    <<<<".">>, <<" ", " ">>>>}}
    \cup {[Arg("Percentage", d, t, w, m) EXCEPT
              !.percentage = p, !.use_bar = b, !.use_delayed_output = u,
              !.keep_output = FALSE] :
            d \in {0, 1}, t \in BOOLEAN, w \in CtorWidths, m \in CtorMessages,
            p \in {0, 2500, 10000}, b \in BOOLEAN, u \in BOOLEAN}

\* before construction
InitNew ==
    /\ args \in CtorArgs
    /\ status = "new"
    /\ fs = NoFs
    /\ cl = NoClean
    /\ Blank

\* construction, then calls of the constructed indicator that start no thread
NextCtor ==
    \/ New
    \/ Show
    \/ SetProgress
    \/ Stop
    \/ CallerNext
    \/ CallerBody
    \/ CallerBody2
    \/ CallerWrite
    \/ PStopNewline
    \/ PStopInner
    \/ PStopClear

CtorSpec == InitNew /\ [][NextCtor]_vars

\* the scheduler runs every render thread that can take a step, and a join
\* returns once the joined thread has ended
FairSpec == Spec /\ (\A t \in Threads : WF_vars(Render(t))) /\ WF_vars(StopJoin)

TypeOK ==
    /\ cpc \in {"idle", "next", "body", "body2", "write", "nl", "istop", "join",
                "clear"}
    /\ \A t \in Threads :
         tpc[t] \in {"unborn", "test", "next", "body", "body2", "write", "sleep",
                     "dead"}
    /\ thread \in 0..MaxThreads
    /\ gen_pos \in 0..3
    /\ ncalls \in 0..MaxCalls


\* ------------------------------------------------------------ observations
IsPrefix(s, t) == Len(s) <= Len(t) /\ SubSeq(t, 1, Len(s)) = s
Since(n) == SubSeq(out, n + 1, Len(out))
ByCaller(o) == SelectSeq(o, LAMBDA w : w.by = Caller)
ByRender(o) == SelectSeq(o, LAMBDA w : w.by # Caller)
KindOf(w) == IF w.text = ClearText THEN "clear"
             ELSE IF w.text = NewlineText THEN "nl" ELSE "frame"
Kinds(o) == [i \in 1..Len(o) |-> KindOf(o[i])]
\* the caller makes a call in this step
Calls(nm) == ncalls' = ncalls + 1 /\ last'.name = nm
StopReturned == last.name = "stop" /\ last.st = "returned"

\* C1: on the base indicator, start() while running spawns no thread and
\* changes no state, at most one render thread is alive at any time, and
\* stop() while not running changes no state and writes nothing.
C1_StartStopNoOp ==
    /\ [](Cardinality(Alive) <= 1)
    /\ [][(kind = "Base" /\ Calls("start") /\ enabled) => UNCHANGED ind]_vars
    /\ [][(kind = "Base" /\ Calls("stop") /\ ~enabled)
            => UNCHANGED ind /\ cpc' = "idle"]_vars

C1_Witness ==
    /\ kind = "Base"
    /\ last.name = "start" /\ last.en0 /\ last.prev = "start"
    /\ Alive # {}

\* C2: when stop() has returned from a running indicator the render thread has
\* ended, the line-clear sequence is the last write, after every frame of the
\* render thread, and the render thread writes nothing afterwards.
C2_StopJoins ==
    /\ []((StopReturned /\ last.en0)
            => /\ Alive = {}
               /\ out # <<>>
               /\ out[Len(out)] = Wr(Caller, ClearText))
    /\ [][StopReturned => ByRender(out') = ByRender(out)]_vars

C2_Witness ==
    /\ kind = "Base"
    /\ StopReturned /\ last.en0
    /\ ByRender(out) # <<>>

\* C3: under fair scheduling of the render thread a stop() that waits in the
\* join returns, and the render thread writes at most one frame after the
\* flag was cleared.
C3_StopReturns ==
    /\ (cpc = "join") ~> (cpc = "idle" /\ last.st = "returned")
    /\ []((kind = "Base" /\ last.name = "stop" /\ last.en0)
            => Len(ByRender(Since(last.n0))) <= 1)

C3_Witness ==
    /\ kind = "Base"
    /\ StopReturned /\ last.en0
    /\ Len(ByRender(Since(last.n0))) = 1


\* the last completed line of the terminal
LastLine(o) == Screen(o).lines[Len(Screen(o).lines)]
\* position in `o` of the last write of `text`, 0 when there is none
RECURSIVE LastIndex(_, _, _)
LastIndex(o, text, i) == IF i = 0 THEN 0
                         ELSE IF o[i].text = text THEN i
                         ELSE LastIndex(o, text, i - 1)
\* position in `o` of the last frame written before position i, 0 when none
RECURSIVE LastFrameBefore(_, _)
LastFrameBefore(o, i) == IF i <= 1 THEN 0
                         ELSE IF KindOf(o[i - 1]) = "frame" THEN i - 1
                         ELSE LastFrameBefore(o, i - 1)
\* a frame as the terminal shows it: the written text without its "\r"
Shown(w) == SubSeq(w.text, 1, Len(w.text) - 1)

\* position in `o` of the first write of `text` after position i
RECURSIVE FirstIndexAfter(_, _, _)
FirstIndexAfter(o, text, i) == IF i >= Len(o) THEN 0
                               ELSE IF o[i + 1].text = text THEN i + 1
                               ELSE FirstIndexAfter(o, text, i + 1)

\* C4: after Percentage.stop() has returned, with keep_output=false the
\* current line is cleared, and with keep_output=true the current line is
\* empty and the last frame rendered before stop()'s newline stands on a
\* completed line of the screen, ended by a newline.
C4_StopLeavesLine ==
    (kind = "Percentage" /\ StopReturned)
        => IF keep_output
           THEN LET k == LastIndex(out, NewlineText, Len(out))
                    f == LastFrameBefore(out, k)
                    n == FirstIndexAfter(out, NewlineText, f)
                IN  /\ k > 0
                    /\ Screen(out).cur = <<>>
                    /\ f > 0 => LastLine(SubSeq(out, 1, n)) = Shown(out[f])
           ELSE Screen(out).cur = <<>>

\* C5: in threaded mode with keep_output=true, the line kept by
\* Percentage.stop() shows the current progress value, the one of the last
\* set_progress() call.
C5_KeptFrameIsCurrent ==
    (kind = "Percentage" /\ use_thread /\ keep_output /\ StopReturned)
        => LastLine(out) = <<" ">> \o PercFrame(Prefix, progress)

\* C6 as stated: every Percentage.stop() first renders a frame in the caller,
\* then writes the newline (keep_output) or the line-clear (otherwise), and
\* only then stops the render thread.
C6_StopOrder_Original ==
    (kind = "Percentage" /\ last.name = "stop" /\ last.st # "raised")
        => LET w == ByCaller(Since(last.n0)) IN
           /\ (cpc \in {"nl", "istop", "join", "clear"} \/ last.st = "returned")
                => (w # <<>> /\ KindOf(w[1]) = "frame")
           /\ (cpc = "join" \/ last.st = "returned")
                => (Len(w) >= 2
                    /\ KindOf(w[2]) = (IF keep_output THEN "nl" ELSE "clear"))

\* what a call of Percentage.stop() writes, in order
StopWrites ==
    (IF use_thread THEN <<"frame">> ELSE <<>>)
    \o (IF keep_output THEN <<"nl">> ELSE <<>>)
    \o (IF ~use_thread \/ last.en0 THEN <<"clear">> ELSE <<>>)

\* C6 amended: in threaded mode Percentage.stop() renders one frame in the
\* caller, then writes a newline if keep_output, then calls the inner stop(),
\* which clears the line only if the indicator was running and only after the
\* render thread has ended; in non-threaded mode it renders no frame, writes a
\* newline if keep_output and then always the line-clear.  The flag is not
\* cleared before the frame and the newline are written.
C6_StopOrder ==
    (kind = "Percentage" /\ last.name = "stop")
        => LET w == Kinds(ByCaller(Since(last.n0))) IN
           /\ IsPrefix(w, StopWrites)
           /\ last.st = "returned" => w = StopWrites
           /\ cpc \in {"next", "body", "write", "nl", "istop"} => enabled = last.en0
           /\ (use_thread /\ w # <<>> /\ w[Len(w)] = "clear") => Alive = {}

C6_Witness ==
    /\ kind = "Percentage" /\ use_thread /\ keep_output
    /\ StopReturned /\ last.en0
    /\ Kinds(ByCaller(Since(last.n0))) = <<"frame", "nl", "clear">>
    /\ ByRender(Since(last.n0)) # <<>>

\* C7: set_progress(v) stores v, and it renders exactly one frame in the
\* caller if and only if the inner indicator is not running when it is
\* called; between calls the indicator is running exactly when its render
\* thread is alive.
C7_SetProgress ==
    /\ (kind = "Percentage" /\ cpc = "idle") => (enabled <=> Alive # {})
    /\ (kind = "Percentage" /\ last.name = "set_progress")
        => /\ progress = last.arg
           /\ last.st # "raised"
           /\ ByCaller(Since(last.n0)) =
                IF last.en0 \/ last.st = "running" THEN <<>>
                ELSE <<Wr(Caller, FrameText(PercFrame(Prefix, last.arg)))>>

C7_Witness ==
    /\ kind = "Percentage" /\ use_thread
    /\ last.name = "set_progress" /\ last.st = "returned"
    /\ ~last.en0 /\ last.prev = "stop"
    /\ Spawned # {}

\* C8: with use_delayed_output=false no render thread is ever spawned and the
\* flag stays false; start() changes no state and writes nothing; every
\* set_progress() writes exactly one frame, from the caller.
C8_NonThreaded ==
    /\ []((kind = "Percentage" /\ ~use_thread)
            => /\ ~enabled /\ thread = 0 /\ Spawned = {}
               /\ ByRender(out) = <<>>
               /\ (last.name = "set_progress" /\ last.st = "returned")
                    => Kinds(Since(last.n0)) = <<"frame">>)
    /\ [][(kind = "Percentage" /\ ~use_thread /\ Calls("start"))
            => UNCHANGED ind]_vars

C8_Witness ==
    /\ kind = "Percentage" /\ ~use_thread
    /\ last.name = "set_progress" /\ last.st = "returned" /\ last.prev = "start"

\* C9: in non-threaded mode, set_progress(v) followed by stop(): the frame
\* showing v is written before stop() writes anything, stop() writes only the
\* newline and the line-clear, and for v = 0.5 the frame reads 50.00%.
C9_FrameBeforeStop ==
    (kind = "Percentage" /\ ~use_thread /\ last.name = "stop"
                         /\ last.prev = "set_progress")
        => /\ last.n0 >= 1
           /\ out[last.n0] = Wr(Caller, FrameText(PercFrame(Prefix, progress)))
           /\ progress = 5000
                => out[last.n0].text
                     = <<" ">> \o Prefix
                       \o <<" ", "5", "0", ".", "0", "0", "%", "\r">>
           /\ \A i \in (last.n0 + 1)..Len(out) : KindOf(out[i]) \in {"nl", "clear"}

C9_Witness ==
    /\ kind = "Percentage" /\ ~use_thread /\ keep_output
    /\ StopReturned /\ last.prev = "set_progress"
    /\ progress = 5000
    /\ Kinds(Since(last.n0)) = <<"nl", "clear">>

\* C10: once a `with` block is left, on whatever path, the indicator is not
\* running and no render thread is alive.
C10_ScopedStop ==
    scope.at = "left" => (last.name = "stop" /\ ~enabled /\ Alive = {})

\* ------------------------------------------------------------------ C11-C13
\* the preconditions of construction
Preconditions(a) ==
    /\ DelayPrecondition(a)
    /\ a.preset = "Dots" => DotsPreconditions(a)

Constructed == status # "new"

\* C11: construction fails with a precondition violation, and yields no
\* indicator and no render thread, whenever delay <= 0, or (Dots) len(dot) #
\* len(blank) or num_dots <= 0; it succeeds when all preconditions hold
C11_Preconditions ==
    Constructed =>
        /\ ~Preconditions(args) =>
              /\ status = "AssertionError"
              /\ kind = "none"
              /\ ~Alive
        /\ Preconditions(args) => status = "ok"

\* C12: without a terminal, construction does not propagate the error of the
\* width query and returns a usable indicator
C12_NoTerminal ==
    (Constructed /\ ~args.tty) =>
        /\ status # "OSError"
        /\ Preconditions(args) => status = "ok"

\* C13: with use_delayed_output = False the delay is ignored: construction of
\* a Percentage indicator succeeds for every delay (a terminal is attached)
C13_DelayIgnored ==
    (Constructed /\ args.tty /\ args.preset = "Percentage"
       /\ ~args.use_delayed_output) =>
        status = "ok"

\* --------------------------------------------------------------------- C14
\* the frames written so far: the writes that end in a carriage return
Frames == SelectSeq(out, LAMBDA w : w.text # <<>> /\ w.text[Len(w.text)] = "\r")

\* C14: the k-th frame pulled from the Dots sequence is the message, then n
\* copies of dot, then num_dots - n copies of blank, n = ((k-1) mod num_dots)
\* + 1; all frames have the same length
C14_DotsFrames ==
    (status = "ok" /\ args.preset = "Dots") =>
        /\ \A k \in 1..Len(Frames) :
             LET n == ((k - 1) % args.num_dots) + 1 IN
             Frames[k].text =
                 <<" ">> \o message \o Rep(args.dot, n)
                         \o Rep(args.blank, args.num_dots - n) \o <<"\r">>
        /\ \A j, k \in 1..Len(Frames) :
             Len(Frames[j].text) = Len(Frames[k].text)

\* the sequence has wrapped around: a fourth frame of a three-dot indicator
C14_Witness ==
    /\ status = "ok" /\ args.preset = "Dots"
    /\ args.num_dots = 3 /\ Len(args.dot) = 2
    /\ Len(Frames) = 4

\* --------------------------------------------------------------------- C15
\* C15: the frames a Spinner renders over its whole life, whatever start(),
\* stop() and show() calls are made, are in order the consecutive elements of
\* the cycle message+'|', '/', '-', '\': none skipped, none repeated, and no
\* restart at '|' after a stop()
C15_SpinnerOrder ==
    (kind = "Base" /\ args.preset = "Spinner") =>
        \A k \in 1..Len(Frames) :
            Frames[k].text
              = <<" ">> \o message \o <<SpinSymbols[((k - 1) % 4) + 1]>> \o <<"\r">>

\* --------------------------------------------------------------------- C16
\* the bar of a frame: the frame without its seven characters "ddd.dd%"
BarOf(f) == SubSeq(f, 1, Len(f) - 7)

\* the caller's show() has pulled a frame of a bar-mode Percentage indicator
BarPulled == status = "ok" /\ args.preset = "Percentage" /\ args.use_bar
             /\ cpc = "write"

\* C16: in bar mode the bar is m + '[' + filled '#' + (bar_width - filled)
\* ' ' + '] ' with bar_width = W - len(m) - 11 and filled = floor(bar_width *
\* p); for W = 80, m = '', p = 0.5 it is '[' + 34 '#' + 35 ' ' + '] '; the bar
\* has the same length for every p
C16_Bar ==
    /\ BarPulled =>
         LET bar_width == args.width - Len(message) - 11
             filled == (bar_width * progress) \div 10000
         IN  BarOf(cframe) = message \o <<"[">> \o Rep(<<"#">>, filled)
                               \o Rep(<<" ">>, bar_width - filled)
                               \o <<"]", " ">>
    /\ (BarPulled /\ args.width = 80 /\ message = <<>> /\ progress = 5000) =>
         BarOf(cframe) = <<"[">> \o [i \in 1..34 |-> "#"] \o [i \in 1..35 |-> " "]
                           \o <<"]", " ">>
    /\ (status = "ok" /\ args.preset = "Percentage" /\ args.use_bar) =>
         \A j, k \in 1..Len(Frames) :
            Len(BarOf(Frames[j].text)) = Len(BarOf(Frames[k].text))

\* the bar of an 80 column terminal at one half is pulled after a bar of
\* another progress value was written
C16_Witness ==
    /\ BarPulled /\ args.width = 80 /\ message = <<>> /\ progress = 5000
    /\ args.percentage = 2500
    /\ Len(Frames) >= 1

\* --------------------------------------------------------------------- C17
\* the terminal is narrower than the preset's threshold
BelowThreshold ==
    \/ args.preset = "Spinner" /\ args.width < Len(args.msg) + 2
    \/ args.preset = "Dots" /\ args.width < args.num_dots + Len(args.msg) + 1
    \/ args.preset = "Percentage" /\ args.use_bar
          /\ args.width < Len(args.msg) + 12
    \/ args.preset = "Percentage" /\ ~args.use_bar
          /\ args.width < Len(args.msg) + 8

\* the length of a frame write of this indicator without its prefix: the
\* blank, the carriage return and what the preset puts after the prefix
BodyLen(pre) ==
    2 + (IF args.preset = "Spinner" THEN 1
         ELSE IF args.preset = "Dots" THEN args.num_dots * Len(args.dot)
         ELSE IF args.use_bar
              THEN LET w == args.width - Len(pre) - 11 IN
                   3 + (IF w > 0 THEN w ELSE 0) + 7
              ELSE 7)

\* out[i] is a frame prefixed by `pre`, or the line-clear sequence
FrameWith(pre, i) ==
    \/ out[i].text = ClearText
    \/ /\ out[i] \in {Frames[k] : k \in 1..Len(Frames)}
       /\ IsPrefix(<<" ">> \o pre, out[i].text)
       /\ Len(out[i].text) = Len(pre) + BodyLen(pre)

\* C17: below the preset's threshold the message is printed exactly once as a
\* plain line and every frame has an empty prefix; otherwise nothing is
\* printed at construction and every frame is prefixed by the message
C17_WidthGuard ==
    status = "ok" =>
        IF BelowThreshold
        THEN /\ Len(out) >= 1
             /\ out[1] = Wr(Caller, args.msg \o <<"\n">>)
             /\ \A i \in 2..Len(out) : FrameWith(<<>>, i)
        ELSE \A i \in 1..Len(out) : FrameWith(args.msg, i)

\* a narrow terminal: the message was printed, two frames followed
C17_Witness ==
    /\ status = "ok" /\ BelowThreshold /\ args.msg # <<>>
    /\ Len(Frames) >= 2

\* =============================================================== clean_data
\* File names are sequences of tokens, so that endswith and `in` test what
\* they test in the code: "cases_rki.json" is <<"cases", "_rki", ".", "json">>.
EndsWith(item, suffix) ==
    /\ Len(suffix) <= Len(item)
    /\ SubSeq(item, Len(item) - Len(suffix) + 1, Len(item)) = suffix
Has(item, tok) == \E i \in 1..Len(item) : item[i] = tok

\* ending = "json"; if hdf5: ending = "h5"
Ending(hdf5) == IF hdf5 THEN <<"h5">> ELSE <<"json">>

\* the tests that select an item for deletion
MatchAll(item) == EndsWith(item, <<".", "json">>) \/ EndsWith(item, <<".", "h5">>)
MatchRki(item, ending) ==
    EndsWith(item, ending) /\ (Has(item, "_rki") \/ Has(item, "RKI"))
MatchPopulation(item, ending) ==
    /\ EndsWith(item, ending)
    /\ (Has(item, "Popul") \/ Has(item, "FullDataB") \/ Has(item, "FullDataL"))
MatchJh(item, ending) == EndsWith(item, ending) /\ Has(item, "_jh")
MatchJhRoot(item, ending) ==
    EndsWith(item, ending) /\ (Has(item, "_jh") \/ Has(item, "JohnHopkins"))

\* the test of block `how` of clean_data
Match(how, item, ending) ==
    IF how = "all" THEN MatchAll(item)
    ELSE IF how = "rki" THEN MatchRki(item, ending)
    ELSE IF how = "population" THEN MatchPopulation(item, ending)
    ELSE IF how = "jh" THEN MatchJh(item, ending)
    ELSE MatchJhRoot(item, ending)

Directories ==
    <<"Germany/", "Spain/", "France/", "Italy/", "US/", "SouthKorea/", "China/">>
DirNames == {Directories[i] : i \in 1..Len(Directories)}

\* a path below out_path: missing, a directory with its files, or something
\* that is not a directory
Missing == [kind |-> "missing", files |-> {}]
NotDir == [kind |-> "notdir", files |-> {}]
Dir(files) == [kind |-> "dir", files |-> files]

\* exception classes: FileNotFoundError and NotADirectoryError are OSErrors
IsA(err, cls) ==
    \/ err = cls
    \/ cls = "OSError" /\ err \in {"FileNotFoundError", "NotADirectoryError"}

\* an except clause that catches the named class only, not its subclasses
Caught_Exact(err, cls) == err = cls

\* `except cls:` catches err
Caught(err, cls) == IsA(err, cls)

\* os.listdir(path) and os.rmdir(path): the error raised, if any
ListErr(e) == IF e.kind = "missing" THEN "FileNotFoundError"
              ELSE IF e.kind = "notdir" THEN "NotADirectoryError"
              ELSE "none"
RmdirErr(e) == IF e.kind = "missing" THEN "FileNotFoundError"
               ELSE IF e.kind = "notdir" THEN "NotADirectoryError"
               ELSE IF e.files # {} THEN "OSError"
               ELSE "none"

\* one directory is cleaned: listdir under `except FileNotFoundError`, the
\* matching items removed, rmdir under `except OSError`.  In the loops over
\* the directories a failed listdir ends the pass (`continue`); in the rki and
\* population blocks it leaves files = [] and the rmdir is still tried
\* (`pass`).  The result is the path afterwards, the exception that leaves
\* clean_data (if any) and what was printed.
CleanDirectory(d, e, how, ending, in_loop) ==
    IF ListErr(e) # "none" /\ ~Caught(ListErr(e), "FileNotFoundError")
    THEN [e |-> e, err |-> ListErr(e), printed |-> {}]
    ELSE IF ListErr(e) # "none" /\ in_loop
    THEN [e |-> e, err |-> "none", printed |-> {}]
    ELSE LET gone == {f \in e.files : Match(how, f, ending)}
             left == [e EXCEPT !.files = @ \ gone]
             deleted == {[what |-> "file", dir |-> d, item |-> f] : f \in gone}
         IN  IF RmdirErr(left) = "none"
             THEN [e |-> Missing, err |-> "none",
                   printed |-> deleted
                       \cup {[what |-> "directory", dir |-> d, item |-> <<>>]}]
             ELSE [e |-> left,
                   err |-> IF Caught(RmdirErr(left), "OSError") THEN "none"
                           ELSE RmdirErr(left),
                   printed |-> deleted]

\* the files directly in out_path are cleaned: listdir under `except
\* FileNotFoundError`, the matching items removed
CleanRoot(e, how, ending) ==
    IF ListErr(e) # "none"
    THEN [e |-> e,
          err |-> IF Caught(ListErr(e), "FileNotFoundError") THEN "none"
                  ELSE ListErr(e),
          printed |-> {}]
    ELSE LET gone == {f \in e.files : Match(how, f, ending)} IN
         [e |-> Dir(e.files \ gone), err |-> "none",
          printed |-> {[what |-> "file", dir |-> "", item |-> f] : f \in gone}]

\* the blocks of the selective branch, in the order of the code
AfterRki(c) == IF c.population THEN "population"
               ELSE IF c.john_hopkins THEN "jh_dirs" ELSE "done"
AfterPopulation(c) == IF c.john_hopkins THEN "jh_dirs" ELSE "done"
Branch(c) == IF c.all_data THEN "all_dirs"
             ELSE IF c.rki THEN "rki"
             ELSE IF c.population THEN "population"
             ELSE IF c.john_hopkins THEN "jh_dirs"
             ELSE "help"

\* the state after a step of clean_data with result r on directory d
CleanStep(d, r, pc, i) ==
    /\ fs' = [fs EXCEPT !.sub[d] = r.e]
    /\ cl' = [cl EXCEPT !.pc = IF r.err # "none" THEN "raised" ELSE pc,
                        !.err = r.err,
                        !.i = i,
                        !.printed = @ \cup r.printed]

\* clean_data(...) is called: the branch is chosen
CleanCall ==
    /\ cl.pc = "call"
    /\ cl' = [cl EXCEPT !.pc = Branch(cl), !.i = 1]
    /\ UNCHANGED <<fs, args, status, kind, use_thread, keep_output, message, ind,
                   cpc, cframe, last, ncalls, scope>>

\* all_data: one pass of the loop over the directories
CleanAllDir ==
    /\ cl.pc = "all_dirs"
    /\ LET d == Directories[cl.i]
           r == CleanDirectory(d, fs.sub[d], "all", Ending(cl.hdf5), TRUE)
       IN  CleanStep(d, r, IF cl.i = Len(Directories) THEN "all_root"
                           ELSE "all_dirs",
                     IF cl.i = Len(Directories) THEN 1 ELSE cl.i + 1)
    /\ UNCHANGED <<args, status, kind, use_thread, keep_output, message, ind,
                   cpc, cframe, last, ncalls, scope>>

\* all_data: the files in out_path itself
CleanAllRoot ==
    /\ cl.pc = "all_root"
    /\ LET r == CleanRoot(fs.root, "all", Ending(cl.hdf5)) IN
       /\ fs' = [fs EXCEPT !.root = r.e]
       /\ cl' = [cl EXCEPT !.pc = IF r.err # "none" THEN "raised" ELSE "done",
                           !.err = r.err, !.printed = @ \cup r.printed]
    /\ UNCHANGED <<args, status, kind, use_thread, keep_output, message, ind,
                   cpc, cframe, last, ncalls, scope>>

\* rki: Germany/
CleanRki ==
    /\ cl.pc = "rki"
    /\ LET d == "Germany/"
           r == CleanDirectory(d, fs.sub[d], "rki", Ending(cl.hdf5), FALSE)
       IN  CleanStep(d, r, AfterRki(cl), 1)
    /\ UNCHANGED <<args, status, kind, use_thread, keep_output, message, ind,
                   cpc, cframe, last, ncalls, scope>>

\* population: Germany/
CleanPopulation ==
    /\ cl.pc = "population"
    /\ LET d == "Germany/"
           r == CleanDirectory(d, fs.sub[d], "population", Ending(cl.hdf5), FALSE)
       IN  CleanStep(d, r, AfterPopulation(cl), 1)
    /\ UNCHANGED <<args, status, kind, use_thread, keep_output, message, ind,
                   cpc, cframe, last, ncalls, scope>>

\* john_hopkins: one pass of the loop over the directories
CleanJhDir ==
    /\ cl.pc = "jh_dirs"
    /\ LET d == Directories[cl.i]
           r == CleanDirectory(d, fs.sub[d], "jh", Ending(cl.hdf5), TRUE)
       IN  CleanStep(d, r, IF cl.i = Len(Directories) THEN "jh_root"
                           ELSE "jh_dirs",
                     IF cl.i = Len(Directories) THEN 1 ELSE cl.i + 1)
    /\ UNCHANGED <<args, status, kind, use_thread, keep_output, message, ind,
                   cpc, cframe, last, ncalls, scope>>

\* john_hopkins: the files in out_path itself
CleanJhRoot ==
    /\ cl.pc = "jh_root"
    /\ LET r == CleanRoot(fs.root, "jh_root", Ending(cl.hdf5)) IN
       /\ fs' = [fs EXCEPT !.root = r.e]
       /\ cl' = [cl EXCEPT !.pc = IF r.err # "none" THEN "raised" ELSE "done",
                           !.err = r.err, !.printed = @ \cup r.printed]
    /\ UNCHANGED <<args, status, kind, use_thread, keep_output, message, ind,
                   cpc, cframe, last, ncalls, scope>>

\* no flag given: the request to specify what to delete is printed
CleanHelp ==
    /\ cl.pc = "help"
    /\ cl' = [cl EXCEPT !.pc = "done",
                        !.printed = @ \cup {[what |-> "help", dir |-> "",
                                             item |-> <<>>]}]
    /\ UNCHANGED <<fs, args, status, kind, use_thread, keep_output, message, ind,
                   cpc, cframe, last, ncalls, scope>>

\* the files the file systems are built from
FileRkiJson == <<"cases", "_rki", ".", "json">>
FileRkiH5 == <<"cases", "_rki", ".", "h5">>
FilePopJson == <<"FullDataB", ".", "json">>
FilePopH5 == <<"Popul", ".", "h5">>
FileJhJson == <<"cases", "_jh", ".", "json">>
FileJhH5 == <<"cases", "_jh", ".", "h5">>
FileOther == <<"notes", ".", "txt">>
FileRootJson == <<"all", "JohnHopkins", ".", "json">>
FileRootH5 == <<"all", "_jh", ".", "h5">>
FileNoDot == <<"list", "_jh", "json">>

GermanyStates ==
    {Missing, NotDir, Dir({}), Dir({FileRkiJson}),
     Dir({FileRkiJson, FileRkiH5, FilePopJson}),
     Dir({FilePopH5, FileJhJson, FileJhH5, FileOther})}
SpainStates == {Missing, Dir({}), Dir({FileJhJson}), Dir({FileJhJson, FileJhH5, FileOther})}
ChinaStates == {Missing, Dir({FileJhH5}), Dir({FileJhJson, FileRkiJson})}
\* France/, Italy/, US/, SouthKorea/: which of them exist (empty)
MiddleStates ==
    {{}, {"France/", "US/"}, {"Italy/", "SouthKorea/"},
     {"France/", "Italy/", "US/", "SouthKorea/"}}
RootStates == {Dir({}), Dir({FileRootJson, FileRootH5}),
               Dir({FileRootJson, FileNoDot, FileOther})}

\* the file systems clean_data is run on: out_path exists with some of the
\* directories, or does not exist at all
FileSystems ==
    {[root |-> r,
      sub |-> [d \in DirNames |->
                 IF d = "Germany/" THEN g
                 ELSE IF d = "Spain/" THEN s
                 ELSE IF d = "China/" THEN c
                 ELSE IF d \in m THEN Dir({}) ELSE Missing]] :
        r \in RootStates, g \in GermanyStates, s \in SpainStates,
        c \in ChinaStates, m \in MiddleStates}
    \cup {[root |-> Missing, sub |-> [d \in DirNames |-> Missing]]}

\* clean_data is about to be called
InitClean ==
    /\ fs \in FileSystems
    /\ \E a, r, j, p, h \in BOOLEAN :
         cl = [pc |-> "call", i |-> 1, err |-> "none", printed |-> {},
               all_data |-> a, rki |-> r, john_hopkins |-> j, population |-> p,
               hdf5 |-> h, fs0 |-> fs]
    /\ args = Arg("Spinner", 1, TRUE, 80, <<>>)
    /\ status = "new"
    /\ Blank

NextClean ==
    \/ CleanCall
    \/ CleanAllDir
    \/ CleanAllRoot
    \/ CleanRki
    \/ CleanPopulation
    \/ CleanJhDir
    \/ CleanJhRoot
    \/ CleanHelp

CleanSpec == InitClean /\ [][NextClean]_vars

\* --------------------------------------------------------------------- C18
\* every path is a directory with files or does not exist
OnlyMissing ==
    /\ cl.fs0.root.kind # "notdir"
    /\ \A d \in DirNames : cl.fs0.sub[d].kind # "notdir"

\* no item of directory entry e passes the test of block `how`
NoneLeft(e, how) ==
    e.kind = "dir" => \A f \in e.files : ~Match(how, f, Ending(cl.hdf5))

\* every directory and item the flags select has been dealt with
Processed ==
    IF cl.all_data
    THEN /\ \A d \in DirNames : NoneLeft(fs.sub[d], "all")
         /\ NoneLeft(fs.root, "all")
    ELSE /\ cl.rki => NoneLeft(fs.sub["Germany/"], "rki")
         /\ cl.population => NoneLeft(fs.sub["Germany/"], "population")
         /\ cl.john_hopkins =>
              /\ \A d \in DirNames : NoneLeft(fs.sub[d], "jh")
              /\ NoneLeft(fs.root, "jh_root")

\* C18: whichever directories (or out_path itself) are missing, and whatever
\* the flags, clean_data does not raise, leaves the missing directories
\* missing, deals with every directory that exists, and removes a directory
\* only if every file it held was deleted
C18_BestEffort ==
    (cl.pc # "none" /\ OnlyMissing) =>
        /\ cl.pc # "raised"
        /\ cl.err = "none"
        /\ cl.pc = "done" => Processed
        /\ \A d \in DirNames :
             /\ cl.fs0.sub[d].kind = "missing" => fs.sub[d].kind = "missing"
             /\ (cl.fs0.sub[d].kind = "dir" /\ fs.sub[d].kind = "missing") =>
                  \A f \in cl.fs0.sub[d].files :
                     [what |-> "file", dir |-> d, item |-> f] \in cl.printed

\* clean_data has returned: Germany/ was missing, files of Spain/ and China/
\* were deleted and one of the two directories was removed
C18_Witness ==
    /\ cl.pc = "done" /\ OnlyMissing
    /\ cl.fs0.sub["Germany/"].kind = "missing"
    /\ \E f \in cl.fs0.sub["Spain/"].files :
          [what |-> "file", dir |-> "Spain/", item |-> f] \in cl.printed
    /\ \E f \in cl.fs0.sub["China/"].files :
          [what |-> "file", dir |-> "China/", item |-> f] \in cl.printed
    /\ fs.sub["Spain/"].kind # fs.sub["China/"].kind

\* --------------------------------------------------------------------- C19
\* the files of entry e0 that do not end in the selected ending are in e
OtherFormatKept(e0, e) ==
    \A f \in e0.files :
        ~EndsWith(f, Ending(cl.hdf5)) => (e.kind = "dir" /\ f \in e.files)

\* C19: for every combination of the flags, clean_data deletes only files
\* that end in json (hdf5 false) or h5 (hdf5 true); files of the other format
\* stay in place
C19_SelectedFormatOnly ==
    cl.pc # "none" =>
        /\ OtherFormatKept(cl.fs0.root, fs.root)
        /\ \A d \in DirNames : OtherFormatKept(cl.fs0.sub[d], fs.sub[d])

\* --------------------------------------------------------------------- C20
\* write w is the frame that shows progress v, bar and percentage
ShowsValue(w, v) ==
    w.text = FrameText(PercFrame(IF args.use_bar
                                 THEN Bar(message, BarWidth(args.width, message), v)
                                 ELSE message, v))

\* a threaded Percentage indicator is running, no call is in progress and
\* stop() is not the last call made
RunningIdle ==
    /\ kind = "Percentage" /\ use_thread
    /\ enabled /\ cpc = "idle"
    /\ last.name # "stop"

\* the frame the render thread wrote last shows v
RendersValue(v) ==
    LET r == ByRender(out) IN r # <<>> /\ ShowsValue(r[Len(r)], v)

\* the frames the render thread wrote since set_progress was called
SinceSet == ByRender(Since(last.n0))

\* C20: while a threaded Percentage indicator is running, after set_progress(v)
\* with no further set_progress and no stop(), the render thread eventually
\* renders a frame showing v, the value then current (unless the output bound
\* is reached first), and from then on every rendered frame shows v: only the
\* frame in flight when set_progress was called can show another value
C20_EventuallyShown ==
    /\ RunningIdle ~>
          (RendersValue(progress) \/ last.name = "stop" \/ Len(out) >= MaxOut)
    /\ []((kind = "Percentage" /\ use_thread /\ last.name = "set_progress"
             /\ last.en0)
            => /\ \A i \in 2..Len(SinceSet) : ShowsValue(SinceSet[i], progress)
               /\ \A i, j \in 1..Len(SinceSet) :
                    (i < j /\ ShowsValue(SinceSet[i], progress))
                       => ShowsValue(SinceSet[j], progress))

\* set_progress(0.5) on a running indicator at 0: the frame in flight was
\* written, then the frame showing 50.00%
C20_Witness ==
    /\ kind = "Percentage" /\ use_thread /\ enabled
    /\ last.name = "set_progress" /\ last.en0 /\ last.arg = 5000
    /\ Len(SinceSet) = 2
    /\ ~ShowsValue(SinceSet[1], 5000)
    /\ ShowsValue(SinceSet[2], 5000)

\* --------------------------------------------------------------------- C21
\* the positions of a thread inside show(): from the call of next() to the
\* write of the frame
InShow == {"next", "body", "body2", "write"}

\* C21: for any sequence of start(), set_progress() and stop() calls of a
\* Percentage indicator, the caller is never inside show() while a render
\* thread is inside show() on the same frame sequence
C21_OneThreadInShow ==
    kind = "Percentage" =>
        ~(cpc \in InShow /\ \E t \in Threads : tpc[t] \in InShow)

====
